---- MODULE Spec2Model ----
(***************************************************************************)
(* Model of the tw-stock-6-v2 front end: the page programs that merge the  *)
(* four fixed tickers of data.json with the two user-entered tickers.      *)
(*                                                                         *)
(* The repository holds three entry points, each a page program of its own:*)
(*   ver = "main"      src/unnamed/part_000  main()        (lines 391-431) *)
(*   ver = "init"      src/docs/app.js       init()        (lines 524-586) *)
(*   ver = "renderAll" src/docs/app.js       renderAll()   (lines 1076-1139)*)
(* Strings the code inspects character by character (ticker inputs) are    *)
(* sequences of one-character strings.                                     *)
(* The helpers of app.js and part_000 (toNumber, trendInfo, foreignTag,    *)
(* badgeForChange, badgeForForeignLots, parseZgb, parseZgkD, the futures   *)
(* block of a card) are exercised on their own: SpecFn, SpecNum, SpecTag,  *)
(* SpecParse; the quote and foreign-flow adapters in SpecQuote.  SpecLive  *)
(* is a page load under fairness of its awaits.                            *)
(***************************************************************************)
EXTENDS Integers, Sequences, FiniteSets, TLC

VARIABLES
  ver,      \* which entry point the page runs
  store,    \* localStorage: the persisted extension-set preference
  data,     \* the loaded data.json, NoData before the load resolves
  pc,       \* position of the page-load invocation
  ext,      \* the extension list of the page-load invocation
  k,        \* index in ext of the fetch the page-load invocation awaits
  t86Map,   \* main(): the prefetched T86 map (NoMap when its fetch failed)
  custom,   \* main(): the custom stocks collected so far
  grid,     \* the visible card grid (children of #stocks / #stockGrid)
  runs,     \* renderAll(): renderStocks invocations suspended at a fetch
  latest,   \* extension list of the most recently issued invocation
  raised,   \* TRUE once a source adapter has thrown (rejected) on this page
  escaped,  \* TRUE once an exception left main()/init()/renderAll() uncaught
  ranked,   \* TRUE once the broker-flow and ranking tables are rendered
  acts,     \* number of user actions so far (bounded by MaxActs)
  call,     \* the helper function last called on its own, with its arguments
  ret       \* what that call returned

vars == <<ver, store, data, pc, ext, k, t86Map, custom, grid, runs, latest,
          raised, escaped, ranked, acts, call, ret>>

\* ---------------------------------------------------------------- bounds
MaxActs == 2

\* ---------------------------------------------------------------- tickers
T2330 == <<"2", "3", "3", "0">>
T2317 == <<"2", "3", "1", "7">>
T3231 == <<"3", "2", "3", "1">>
T2382 == <<"2", "3", "8", "2">>
T2303 == <<"2", "3", "0", "3">>
T2454 == <<"2", "4", "5", "4">>

FIXED == <<T2330, T2317, T3231, T2382>>

Range(s) == {s[i] : i \in DOMAIN s}
FixedSet == Range(FIXED)

Digit == {"0", "1", "2", "3", "4", "5", "6", "7", "8", "9"}

\* What the user can type in one input box.
Inputs == {<<>>, <<"A", "B">>, T2303, T2454, T2330, <<" ", "2", "3", "0", "3">>}

RECURSIVE trimLeft(_)
trimLeft(s) == IF s # <<>> /\ Head(s) = " " THEN trimLeft(Tail(s)) ELSE s

RECURSIVE trimRight(_)
trimRight(s) ==
  IF s # <<>> /\ s[Len(s)] = " " THEN trimRight(SubSeq(s, 1, Len(s) - 1)) ELSE s

trim(s) == trimRight(trimLeft(s))

\* /^[0-9]{4,6}$/ on the text t
MatchesTickerId(t) == Len(t) \in 4..6 /\ \A i \in DOMAIN t : t[i] \in Digit

isValidTicker(t) == MatchesTickerId(trim(t))

normTicker(s) ==
  LET t == trim(s) IN
  IF t = <<>> THEN <<>> ELSE IF ~MatchesTickerId(t) THEN <<>> ELSE t

slice2(s) == IF Len(s) <= 2 THEN s ELSE SubSeq(s, 1, 2)

NonEmpty(t) == t # <<>>

MapTrim(s) == [i \in DOMAIN s |-> trim(s[i])]

\* ---------------------------------------------------------------- the feed
\* data.json as far as the cards read it: keys is the key order of data.stocks
\* in the document (a fixed ticker missing from keys has no entry), arr tells
\* whether data.stocks is an array or an object keyed by ticker, and fstate is
\* what the foreign field of ticker bad holds ("value", "error": an explicit
\* failure reason, "absent"); every other present stock holds a value.
NoData == [keys |-> <<>>, arr |-> FALSE, bad |-> <<>>, fstate |-> "value"]

Feed(ks, a, fs) == [keys |-> ks, arr |-> a, bad |-> T2317, fstate |-> fs]

\* The documents the page is loaded with.  part_000 reads data.stocks by key
\* and knows a foreign field with an error; app.js reads Object.values of it.
Feeds(v) ==
  IF v = "main"
  THEN {Feed(FIXED, FALSE, "value"), Feed(FIXED, FALSE, "error"),
        Feed(<<T2382, T2317, T2330>>, FALSE, "absent")}
  ELSE {Feed(FIXED, FALSE, "value"), Feed(FIXED, TRUE, "absent"),
        Feed(<<T2382, T2317, T2330>>, TRUE, "value"),
        Feed(<<T2382, T2317, T2330>>, FALSE, "absent")}

DigitVal(c) ==
  CASE c = "0" -> 0 [] c = "1" -> 1 [] c = "2" -> 2 [] c = "3" -> 3
    [] c = "4" -> 4 [] c = "5" -> 5 [] c = "6" -> 6 [] c = "7" -> 7
    [] c = "8" -> 8 [] c = "9" -> 9

RECURSIVE keyIndex(_)
keyIndex(t) ==
  IF t = <<>> THEN 0
  ELSE 10 * keyIndex(SubSeq(t, 1, Len(t) - 1)) + DigitVal(t[Len(t)])

RECURSIVE ascending(_)
ascending(S) ==
  IF S = {} THEN <<>>
  ELSE LET m == CHOOSE x \in S : \A y \in S : keyIndex(x) <= keyIndex(y)
       IN <<m>> \o ascending(S \ {m})

\* Object.values(data.stocks || {}): an array gives its elements in order; an
\* object gives its integer-like keys ("2330") in ascending numeric order,
\* whatever their order in the document.
ObjectValues(d) == IF d.arr THEN d.keys ELSE ascending(Range(d.keys))

\* data.stocks?.[tk]
HasStock(d, tk) == tk \in Range(d.keys)

ForeignOf(d, tk) == IF tk = d.bad THEN d.fstate ELSE "value"

\* ---------------------------------------------------------------- cards
\* A card, as far as the properties read it: whose it is, whether it is marked as
\* an extension card, and what its title, quote and foreign-flow sections show:
\* "value", "dash" (the placeholder of an absent value), "reason" (a failure
\* reason in words) or "none" (the section is not there).
Card(t, x, ti, q, f) ==
  [ticker |-> t, extra |-> x, title |-> ti, quote |-> q, foreign |-> f]

\* A stock object handed to stockCardFromData (part_000).
Stock(t, n, c, f) == [ticker |-> t, name |-> n, close |-> c, foreign |-> f]

stockCardFromData(s, x) ==
  Card(s.ticker, x,
       IF s.name = "load-failed" THEN "reason" ELSE "value",
       IF s.close = "value" THEN "value" ELSE "dash",
       CASE s.foreign = "error" -> "reason"
         [] s.foreign = "value" -> "value"
         [] OTHER -> "dash")

\* renderStockCard (app.js, both copies): close ?? "-", D0 ?? "-".
renderStockCard(t, c, d0, x) ==
  Card(t, x, "value",
       IF c = "value" THEN "value" ELSE "dash",
       IF d0 = "value" THEN "value" ELSE "dash")

\* The error card of init()'s and renderStocks()'s catch block.
errCard(t) == Card(t, TRUE, "value", "reason", "none")

FeedStock(d, tk) == Stock(tk, "name", "value", ForeignOf(d, tk))

\* renderStocksMain with break for continue: the loop over FIXED stops at the
\* first ticker the feed has no entry for.
renderStocksMainBreak(d, cs) ==
  LET missing == {i \in DOMAIN FIXED : ~HasStock(d, FIXED[i])}
      stop == IF missing = {} THEN Len(FIXED) + 1
              ELSE CHOOSE i \in missing : \A j \in missing : i <= j
      present == SubSeq(FIXED, 1, stop - 1)
  IN [i \in DOMAIN present |-> stockCardFromData(FeedStock(d, present[i]), FALSE)]
     \o [i \in DOMAIN cs |-> stockCardFromData(cs[i], TRUE)]

\* renderStocks(data, customStocks) of part_000
renderStocksMain(d, cs) ==
  LET present == SelectSeq(FIXED, LAMBDA tk : HasStock(d, tk))
  IN [i \in DOMAIN present |-> stockCardFromData(FeedStock(d, present[i]), FALSE)]
     \o [i \in DOMAIN cs |-> stockCardFromData(cs[i], TRUE)]

\* Fixed cards left for after the fetches of the extension tickers.
fixedCardsLater(d) == <<>>

\* The fixed cards of init() and of app.js's renderStocks()
fixedCards(d) ==
  LET vs == ObjectValues(d)
  IN [i \in DOMAIN vs |->
        renderStockCard(vs[i], "value", ForeignOf(d, vs[i]), FALSE)]

\* ---------------------------------------------------------------- adapters
\* How one upstream request ends: "ok", "http" (a non-OK status), "net" (the
\* request itself rejects), "empty" (no usable rows), "norow" (the table has
\* no row for the ticker).
QuoteOutcomes == {"ok", "http", "net", "empty"}
ForeignOutcomes == {"ok", "http", "net", "norow"}
T86Outcomes == {"ok", "http", "net"}

\* The securities a T86 table can list, of those the user can type.
T86Tables == {{}, {T2303}, {T2303, T2454, T2330}}

NoMap == [ok |-> FALSE, has |-> {}]

\* An adapter either returns val or throws (rejects).
Returned(v) == [thrown |-> FALSE, val |-> v]
Thrown(v) == [thrown |-> TRUE, val |-> v]

\* part_000: throws on a non-OK status (fetchJson), on stat # OK, on no rows.
fetchTwseStockDay(tk, o) ==
  IF o = "ok" THEN Returned(Stock(tk, "name", "value", "absent"))
  ELSE Thrown(Stock(tk, "name", "null", "absent"))

fetchTwseT86Map(o, has) ==
  IF o = "ok" THEN Returned([ok |-> TRUE, has |-> has]) ELSE Thrown(NoMap)

\* app.js (first copy): throws on a non-OK status and on no rows.
fetchTwsePrice(o) == IF o = "ok" THEN Returned("value") ELSE Thrown("null")

\* app.js (first copy): a non-OK status and a missing row give D0 = null; a
\* rejected request is not caught here.
fetchTwseForeignD0(o) ==
  CASE o = "ok" -> Returned("value")
    [] o = "net" -> Thrown("null")
    [] OTHER -> Returned("null")

\* app.js (second copy): every failure is caught inside and gives null.
fetchPriceChangePct(o) == Returned(IF o = "ok" THEN "value" ELSE "null")

fetchForeignLots(o) == Returned(IF o = "ok" THEN "value" ELSE "null")

\* ---------------------------------------------------------------- callers
\* Each gives what its try/catch leaves behind: esc (the exception left the
\* caller uncaught) and the value it goes on with.

\* main(): try { t86Map = await fetchTwseT86Map(..) } catch (e) { t86Map = null }
mainT86(res) == [esc |-> FALSE, map |-> IF res.thrown THEN NoMap ELSE res.val]

\* mainCustom without its try/catch: a throwing adapter rejects main().
mainCustomNoCatch(tk, res, map) ==
  IF res.thrown
  THEN [esc |-> TRUE, s |-> Stock(tk, "load-failed", "null", "error")]
  ELSE [esc |-> FALSE,
        s |-> [res.val EXCEPT
                 !.foreign = IF map.ok /\ tk \in map.has THEN "value" ELSE "error"]]

\* main(): the body of the loop over customTickers
mainCustom(tk, res, map) ==
  IF res.thrown
  THEN [esc |-> FALSE, s |-> Stock(tk, "load-failed", "null", "error")]
  ELSE [esc |-> FALSE,
        s |-> [res.val EXCEPT
                 !.foreign = IF map.ok /\ tk \in map.has THEN "value" ELSE "error"]]

\* A loop body without its try/catch.
initExtraNoCatch(t, price, foreign) ==
  IF price.thrown \/ foreign.thrown
  THEN [esc |-> TRUE, card |-> errCard(t)]
  ELSE [esc |-> FALSE, card |-> renderStockCard(t, price.val, foreign.val, TRUE)]

\* init(): the body of the loop over extras
initExtra(t, price, foreign) ==
  IF price.thrown \/ foreign.thrown
  THEN [esc |-> FALSE, card |-> errCard(t)]
  ELSE [esc |-> FALSE, card |-> renderStockCard(t, price.val, foreign.val, TRUE)]

\* fetchExtraStock + the body of renderStocks()'s loop (app.js, second copy)
stocksExtra(t, price, d0) ==
  IF price.thrown \/ d0.thrown
  THEN [esc |-> FALSE, card |-> errCard(t)]
  ELSE [esc |-> FALSE, card |-> renderStockCard(t, price.val, d0.val, TRUE)]

\* ---------------------------------------------------------------- stored preference
EmptyStore(v) == IF v = "renderAll" THEN <<>> ELSE << <<>>, <<>> >>

\* main(): [c1, c2].filter(x => x), c1 and c2 trimmed
customTickers(st) == SelectSeq(MapTrim(st), NonEmpty)

\* init(): readExtraTickers().map(normTicker), then without the empty ones and
\* without those that are the ticker of a fixed stock
initExtras(st, d) ==
  SelectSeq([i \in DOMAIN st |-> normTicker(st[i])],
            LAMBDA x : x # <<>> /\ x \notin Range(ObjectValues(d)))

\* getExtraTickers()
getExtraTickers(st) == slice2(SelectSeq(MapTrim(st), NonEmpty))

\* setExtraTickers(list)
setExtraTickers(list) == slice2(list)

\* onApply: cleaned, then finalList
finalList(tickers) ==
  SelectSeq(slice2(SelectSeq(MapTrim(tickers), NonEmpty)), isValidTicker)

\* renderAll(): getExtraTickers().filter(isValidTicker)
loadExtras(st) == SelectSeq(getExtraTickers(st), isValidTicker)

\* ---------------------------------------------------------------- state machine
Versions == {"main", "init", "renderAll"}

\* No helper function has been called on its own.
NoCall == [fn |-> "none"]

Init ==
  /\ ver \in Versions
  /\ store = EmptyStore(ver)
  /\ data = NoData
  /\ pc = "boot"
  /\ ext = <<>>
  /\ k = 0
  /\ t86Map = NoMap
  /\ custom = <<>>
  /\ grid = <<>>
  /\ runs = <<>>
  /\ latest = <<>>
  /\ raised = FALSE
  /\ escaped = FALSE
  /\ ranked = FALSE
  /\ acts = 0
  /\ call = NoCall
  /\ ret = NoCall

\* location.reload(), or the user reloading the page: the document and every
\* invocation in flight are gone, localStorage stays.
FreshPage ==
  /\ data' = NoData
  /\ pc' = "boot"
  /\ ext' = <<>>
  /\ k' = 0
  /\ t86Map' = NoMap
  /\ custom' = <<>>
  /\ grid' = <<>>
  /\ runs' = <<>>
  /\ latest' = <<>>
  /\ raised' = FALSE
  /\ escaped' = FALSE
  /\ ranked' = FALSE
  /\ UNCHANGED ver
  /\ UNCHANGED <<call, ret>>

Reload ==
  /\ acts < MaxActs
  /\ acts' = acts + 1
  /\ UNCHANGED store
  /\ FreshPage

\* A failure path that drops the stored preference (data.json does not load).
LoadFailForgets ==
  /\ pc = "boot"
  /\ pc' = "failed"
  /\ store' = EmptyStore(ver)
  /\ UNCHANGED <<ver, data, ext, k, t86Map, custom, grid, runs, latest,
                 raised, escaped, ranked, acts>>
  /\ UNCHANGED <<call, ret>>

\* data.json does not load: main() and renderAll() reject into their .catch,
\* init() lands in its outer catch.
LoadFail ==
  /\ pc = "boot"
  /\ pc' = "failed"
  /\ UNCHANGED <<ver, store, data, ext, k, t86Map, custom, grid, runs, latest,
                 raised, escaped, ranked, acts>>
  /\ UNCHANGED <<call, ret>>

\* ------------------------------------------------ part_000: main()
\* renderCustomInputs() installs the handlers before the first await.
MainApply(v1, v2) ==
  /\ ver = "main"
  /\ acts < MaxActs
  /\ acts' = acts + 1
  /\ store' = <<trim(v1), trim(v2)>>
  /\ FreshPage

MainClear ==
  /\ ver = "main"
  /\ acts < MaxActs
  /\ acts' = acts + 1
  /\ store' = << <<>>, <<>> >>
  /\ FreshPage

\* data.json resolves: header, the fixed cards, then the custom tickers.
MainLoad(d) ==
  /\ ver = "main"
  /\ pc = "boot"
  /\ data' = d
  /\ grid' = renderStocksMain(d, <<>>)
  /\ LET cts == customTickers(store) IN
       /\ ext' = cts
       /\ latest' = cts
       /\ IF cts = <<>>
          THEN /\ pc' = "done"
               /\ ranked' = TRUE
               /\ k' = 0
          ELSE /\ pc' = "t86"
               /\ ranked' = FALSE
               /\ k' = 1
  /\ UNCHANGED <<ver, store, t86Map, custom, runs, raised, escaped, acts>>
  /\ UNCHANGED <<call, ret>>

MainT86(o, has) ==
  /\ ver = "main"
  /\ pc = "t86"
  /\ LET res == fetchTwseT86Map(o, has)
         r == mainT86(res)
     IN
       /\ raised' = (raised \/ res.thrown)
       /\ t86Map' = r.map
       /\ escaped' = r.esc
       /\ pc' = IF r.esc THEN "failed" ELSE "day"
  /\ UNCHANGED <<ver, store, data, ext, k, custom, grid, runs, latest, ranked,
                 acts>>
  /\ UNCHANGED <<call, ret>>

MainDay(o) ==
  /\ ver = "main"
  /\ pc = "day"
  /\ LET tk == ext[k]
         res == fetchTwseStockDay(tk, o)
         r == mainCustom(tk, res, t86Map)
         cs == Append(custom, r.s)
     IN
       /\ raised' = (raised \/ res.thrown)
       /\ escaped' = r.esc
       /\ IF r.esc
          THEN /\ pc' = "failed"
               /\ UNCHANGED <<custom, k, grid, ranked>>
          ELSE /\ custom' = cs
               /\ IF k = Len(ext)
                  THEN /\ grid' = renderStocksMain(data, cs)
                       /\ ranked' = TRUE
                       /\ pc' = "done"
                       /\ k' = k
                  ELSE /\ k' = k + 1
                       /\ UNCHANGED <<grid, ranked, pc>>
  /\ UNCHANGED <<ver, store, data, ext, t86Map, runs, latest, acts>>
  /\ UNCHANGED <<call, ret>>

\* ------------------------------------------------ app.js: init()
\* renderExtraUI() runs after data.json has loaded.
InitApply(v1, v2) ==
  /\ ver = "init"
  /\ pc \in {"price", "done"}
  /\ acts < MaxActs
  /\ acts' = acts + 1
  /\ store' = <<normTicker(v1), normTicker(v2)>>
  /\ FreshPage

InitClear ==
  /\ ver = "init"
  /\ pc \in {"price", "done"}
  /\ acts < MaxActs
  /\ acts' = acts + 1
  /\ store' = << <<>>, <<>> >>
  /\ FreshPage

InitLoad(d) ==
  /\ ver = "init"
  /\ pc = "boot"
  /\ data' = d
  /\ grid' = fixedCards(d)
  /\ LET extras == initExtras(store, d) IN
       /\ ext' = extras
       /\ latest' = extras
       /\ IF extras = <<>>
          THEN /\ pc' = "done"
               /\ ranked' = TRUE
               /\ k' = 0
          ELSE /\ pc' = "price"
               /\ ranked' = FALSE
               /\ k' = 1
  /\ UNCHANGED <<ver, store, t86Map, custom, runs, raised, escaped, acts>>
  /\ UNCHANGED <<call, ret>>

\* One turn of the loop over extras: fetchTwsePrice, then (when that returned)
\* fetchTwseForeignD0, then the card.
InitExtra(oq, of) ==
  /\ ver = "init"
  /\ pc = "price"
  /\ LET t == ext[k]
         price == fetchTwsePrice(oq)
         foreign == IF price.thrown THEN Returned("null") ELSE fetchTwseForeignD0(of)
         r == initExtra(t, price, foreign)
     IN
       /\ raised' = (raised \/ price.thrown \/ foreign.thrown)
       /\ escaped' = r.esc
       /\ IF r.esc
          THEN /\ pc' = "failed"
               /\ UNCHANGED <<k, grid, ranked>>
          ELSE /\ grid' = Append(grid, r.card)
               /\ IF k = Len(ext)
                  THEN /\ ranked' = TRUE
                       /\ pc' = "done"
                       /\ k' = k
                  ELSE /\ k' = k + 1
                       /\ UNCHANGED <<ranked, pc>>
  /\ UNCHANGED <<ver, store, data, ext, t86Map, custom, runs, latest, acts>>
  /\ UNCHANGED <<call, ret>>

\* ------------------------------------------------ app.js: renderAll()
\* An invocation of renderStocks(data, extraTickers) suspended at the fetch of
\* extraTickers[i]; main marks the invocation renderAll() itself awaits.
Run(e, m) == [ext |-> e, i |-> 1, main |-> m]

RemoveAt(s, n) == SubSeq(s, 1, n - 1) \o SubSeq(s, n + 1, Len(s))

\* renderStocks() up to its first await: the grid is emptied, the fixed cards
\* are appended, and with no extension ticker the invocation is over.
StartStocks(d, e, m) ==
  /\ grid' = fixedCards(d)
  /\ latest' = e
  /\ runs' = IF e = <<>> THEN runs ELSE Append(runs, Run(e, m))

AllLoad(d) ==
  /\ ver = "renderAll"
  /\ pc = "boot"
  /\ data' = d
  /\ LET extras == loadExtras(store) IN
       /\ StartStocks(d, extras, TRUE)
       /\ pc' = IF extras = <<>> THEN "done" ELSE "stocks"
       /\ ranked' = (extras = <<>>)
  /\ UNCHANGED <<ver, store, ext, k, t86Map, custom, raised, escaped, acts>>
  /\ UNCHANGED <<call, ret>>

\* The onApply handler of renderAll(), called with the two input values.
AllApply(v1, v2) ==
  /\ ver = "renderAll"
  /\ pc \in {"stocks", "done"}
  /\ acts < MaxActs
  /\ acts' = acts + 1
  /\ LET fl == finalList(<<trim(v1), trim(v2)>>) IN
       /\ store' = setExtraTickers(fl)
       /\ StartStocks(data, fl, FALSE)
  /\ UNCHANGED <<ver, data, pc, ext, k, t86Map, custom, raised, escaped, ranked>>
  /\ UNCHANGED <<call, ret>>

AllClear ==
  /\ ver = "renderAll"
  /\ pc \in {"stocks", "done"}
  /\ acts < MaxActs
  /\ acts' = acts + 1
  /\ store' = setExtraTickers(<<>>)
  /\ StartStocks(data, <<>>, FALSE)
  /\ UNCHANGED <<ver, data, pc, ext, k, t86Map, custom, raised, escaped, ranked>>
  /\ UNCHANGED <<call, ret>>

\* The fetches of one extension ticker of invocation n resolve: its card is
\* appended to the grid and the loop goes on (or the invocation returns).
AllStep(n, oq, of) ==
  /\ ver = "renderAll"
  /\ n \in DOMAIN runs
  /\ LET run == runs[n]
         t == run.ext[run.i]
         price == fetchPriceChangePct(oq)
         d0 == fetchForeignLots(of)
         r == stocksExtra(t, price, d0)
         last == run.i = Len(run.ext)
     IN
       /\ raised' = (raised \/ price.thrown \/ d0.thrown)
       /\ escaped' = (escaped \/ r.esc)
       /\ grid' = IF r.esc THEN grid ELSE Append(grid, r.card)
       /\ runs' = IF last \/ r.esc THEN RemoveAt(runs, n)
                  ELSE [runs EXCEPT ![n].i = run.i + 1]
       /\ IF last /\ run.main /\ ~r.esc
          THEN /\ ranked' = TRUE
               /\ pc' = "done"
          ELSE UNCHANGED <<ranked, pc>>
  /\ UNCHANGED <<ver, store, data, ext, k, t86Map, custom, latest, acts>>
  /\ UNCHANGED <<call, ret>>

\* ------------------------------------------------ specification
Next ==
  \/ Reload
  \/ LoadFail
  \/ \E v1, v2 \in Inputs : MainApply(v1, v2)
  \/ MainClear
  \/ \E d \in Feeds("main") : MainLoad(d)
  \/ \E o \in T86Outcomes, has \in T86Tables : MainT86(o, has)
  \/ \E o \in QuoteOutcomes : MainDay(o)
  \/ \E v1, v2 \in Inputs : InitApply(v1, v2)
  \/ InitClear
  \/ \E d \in Feeds("init") : InitLoad(d)
  \/ \E oq \in QuoteOutcomes, of \in ForeignOutcomes : InitExtra(oq, of)
  \/ \E d \in Feeds("renderAll") : AllLoad(d)
  \/ \E v1, v2 \in Inputs : AllApply(v1, v2)
  \/ AllClear
  \/ \E n \in 1..Len(runs), oq \in QuoteOutcomes, of \in ForeignOutcomes :
       AllStep(n, oq, of)

Spec == Init /\ [][Next]_vars

\* ------------------------------------------------ one page load
\* What an earlier session can have left in localStorage: whatever the apply
\* handler of the version writes for two input values (clear included).
Stored(v) ==
  {CASE v = "main" -> <<trim(v1), trim(v2)>>
     [] v = "init" -> <<normTicker(v1), normTicker(v2)>>
     [] OTHER -> setExtraTickers(finalList(<<trim(v1), trim(v2)>>)) :
   v1 \in Inputs, v2 \in Inputs}

InitPage ==
  /\ ver \in Versions
  /\ store \in Stored(ver)
  /\ data = NoData
  /\ pc = "boot"
  /\ ext = <<>>
  /\ k = 0
  /\ t86Map = NoMap
  /\ custom = <<>>
  /\ grid = <<>>
  /\ runs = <<>>
  /\ latest = <<>>
  /\ raised = FALSE
  /\ escaped = FALSE
  /\ ranked = FALSE
  /\ acts = 0
  /\ call = NoCall
  /\ ret = NoCall

\* A page load that the user leaves alone until it is over.
NextPage ==
  \/ LoadFail
  \/ \E d \in Feeds("main") : MainLoad(d)
  \/ \E o \in T86Outcomes, has \in T86Tables : MainT86(o, has)
  \/ \E o \in QuoteOutcomes : MainDay(o)
  \/ \E d \in Feeds("init") : InitLoad(d)
  \/ \E oq \in QuoteOutcomes, of \in ForeignOutcomes : InitExtra(oq, of)
  \/ \E d \in Feeds("renderAll") : AllLoad(d)
  \/ \E n \in 1..Len(runs), oq \in QuoteOutcomes, of \in ForeignOutcomes :
       AllStep(n, oq, of)

SpecPage == InitPage /\ [][NextPage]_vars

\* ------------------------------------------------ one page load that goes through
\* The feed loads, and every fetch that was issued resolves or rejects in the
\* end: each await of the invocation is eventually resumed.
NextLive ==
  \/ \E d \in Feeds("main") : MainLoad(d)
  \/ \E o \in T86Outcomes, has \in T86Tables : MainT86(o, has)
  \/ \E o \in QuoteOutcomes : MainDay(o)
  \/ \E d \in Feeds("init") : InitLoad(d)
  \/ \E oq \in QuoteOutcomes, of \in ForeignOutcomes : InitExtra(oq, of)
  \/ \E d \in Feeds("renderAll") : AllLoad(d)
  \/ \E n \in 1..Len(runs), oq \in QuoteOutcomes, of \in ForeignOutcomes :
       AllStep(n, oq, of)

SpecLive == InitPage /\ [][NextLive]_vars /\ WF_vars(NextLive)

\* ------------------------------------------------ one visit
\* A first visit (nothing stored yet) during which the user acts once: reloads,
\* applies or clears.
NextUse ==
  \/ LoadFail
  \/ \E d \in Feeds("main") : MainLoad(d)
  \/ \E o \in T86Outcomes, has \in T86Tables : MainT86(o, has)
  \/ \E o \in QuoteOutcomes : MainDay(o)
  \/ \E d \in Feeds("init") : InitLoad(d)
  \/ \E oq \in QuoteOutcomes, of \in ForeignOutcomes : InitExtra(oq, of)
  \/ \E d \in Feeds("renderAll") : AllLoad(d)
  \/ \E n \in 1..Len(runs), oq \in QuoteOutcomes, of \in ForeignOutcomes :
       AllStep(n, oq, of)
  \/ acts = 0 /\ Reload
  \/ acts = 0 /\ \E v1, v2 \in Inputs : MainApply(v1, v2)
  \/ acts = 0 /\ MainClear
  \/ acts = 0 /\ \E v1, v2 \in Inputs : InitApply(v1, v2)
  \/ acts = 0 /\ InitClear
  \/ acts = 0 /\ \E v1, v2 \in Inputs : AllApply(v1, v2)
  \/ acts = 0 /\ AllClear

SpecUse == Init /\ [][NextUse]_vars

\* ------------------------------------------------ helper functions on their own
\* The page variables stay as Init leaves them while a helper is exercised.
PageIdle ==
  UNCHANGED <<ver, store, data, pc, ext, k, t86Map, custom, grid, runs, latest,
              raised, escaped, ranked, acts>>

\* ------------------------------------------------ futures section of a card
\* The futures part of data.json as seen from one ticker.
\*   obj    the futures object itself is there
\*   entry  it holds an entry for the ticker
\*   pos    that entry carries the positions (top5, top10, open interest)
\*   err    an error string is there
FutFeed(o, e, p, r) == [obj |-> o, entry |-> e, pos |-> p, err |-> r]

\* app.js reads data.taifex_large_trader = {date, error, by_ticker}: the error
\* string belongs to the whole object.  part_000 reads data.taifex[ticker],
\* which holds either the positions or {error}.
FutFeeds(v) ==
  IF v = "main"
  THEN {FutFeed(TRUE, TRUE, TRUE, FALSE), FutFeed(TRUE, TRUE, FALSE, TRUE),
        FutFeed(TRUE, FALSE, FALSE, FALSE), FutFeed(FALSE, FALSE, FALSE, FALSE)}
  ELSE {FutFeed(TRUE, TRUE, TRUE, FALSE), FutFeed(TRUE, FALSE, FALSE, TRUE),
        FutFeed(TRUE, FALSE, FALSE, FALSE), FutFeed(FALSE, FALSE, FALSE, FALSE),
        FutFeed(TRUE, TRUE, TRUE, TRUE)}

\* What the futures section of a card shows: the figures, a reason (the feed's
\* text or the built-in one), the only-four-supported note, or nothing.
FutHtml(sh, tx) == [shown |-> sh, text |-> tx]

\* A renderer that leaves the section out when there are no positions.
futHtmlSilent(ticker, isExtra, f) ==
  IF ticker \in FixedSet /\ ~isExtra /\ f.obj /\ f.entry
  THEN FutHtml("figures", "none")
  ELSE FutHtml("none", "none")

\* renderStockCard(), its TAIFEX block.
futHtml(ticker, isExtra, f) ==
  LET futError == f.obj /\ f.err
      fut == f.obj /\ f.entry
  IN IF ticker \in FixedSet /\ ~isExtra
     THEN IF fut
          THEN FutHtml("figures", "none")
          ELSE FutHtml("reason", IF futError THEN "feed" ELSE "default")
     ELSE IF ~isExtra
          THEN FutHtml("unsupported", "none")
          ELSE FutHtml("none", "none")

\* stockCardFromData(stock, taifexInfo), its TAIFEX block; renderStocks()
\* passes data.taifex?.[tk] for a fixed card and null for a custom one.
tfBox(ticker, isExtra, f) ==
  LET taifexInfo == ~isExtra /\ f.obj /\ f.entry
      error == taifexInfo /\ f.err
  IN IF ticker \in FixedSet
     THEN IF ~taifexInfo \/ error
          THEN FutHtml("reason", IF error THEN "feed" ELSE "default")
          ELSE FutHtml("figures", "none")
     ELSE FutHtml("none", "none")

CallFutures(tk, x, f) ==
  /\ call = NoCall
  /\ call' = [fn |-> "futures", ticker |-> tk, extra |-> x, fut |-> f]
  /\ ret' = IF ver = "main" THEN tfBox(tk, x, f) ELSE futHtml(tk, x, f)
  /\ PageIdle

NextFn ==
  \/ call = NoCall /\ \E tk \in FixedSet \cup {T2303}, x \in BOOLEAN,
                          f \in FutFeeds(ver) : CallFutures(tk, x, f)

SpecFn == Init /\ [][NextFn]_vars

\* ------------------------------------------------ toNumber
MaxText == 5

\* The characters a text is made of here: digits, the thousands separator,
\* the decimal point, the sign, and a blank for any other text.
Chars == {"0", "1", ",", ".", "-", " "}

Texts == UNION {[1..n -> Chars] : n \in 0..MaxText}

\* The values toNumber() is called with.
Str(t) == [kind |-> "string", chars |-> t]

NullArg == [kind |-> "null", chars |-> <<>>]

UndefinedArg == [kind |-> "undefined", chars |-> <<>>]

\* A JavaScript number mant / 10^scale, and null.
Num(m, sc) == [null |-> FALSE, mant |-> m, scale |-> sc]

Null == [null |-> TRUE, mant |-> 0, scale |-> 0]

RECURSIVE normal(_, _)
normal(m, sc) ==
  IF sc > 0 /\ m % 10 = 0 THEN normal(m \div 10, sc - 1) ELSE Num(m, sc)

RECURSIVE intOf(_)
intOf(ds) ==
  IF ds = <<>> THEN 0
  ELSE 10 * intOf(SubSeq(ds, 1, Len(ds) - 1)) + DigitVal(ds[Len(ds)])

\* Number(m[0]) for a matched token  -?digits(.digits)?
Number(tok) ==
  LET neg == tok[1] = "-"
      u == IF neg THEN Tail(tok) ELSE tok
      dots == {i \in DOMAIN u : u[i] = "."}
      sc == IF dots = {} THEN 0 ELSE Len(u) - (CHOOSE i \in dots : TRUE)
      m == intOf(SelectSeq(u, LAMBDA c : c # "."))
  IN normal(IF neg THEN 0 - m ELSE m, sc)

\* .replace(/,/g, "")
removeCommas(t) == SelectSeq(t, LAMBDA c : c # ",")

\* The index of the last digit of the run of digits starting at i (i - 1 when
\* there is no digit at i).
RECURSIVE digitsEnd(_, _)
digitsEnd(t, i) ==
  IF i <= Len(t) /\ t[i] \in Digit THEN digitsEnd(t, i + 1) ELSE i - 1

\* /-?\d+(?:\.\d+)?/ tried at index i: the index the match ends at, 0 when
\* it does not match there.
matchAt(t, i) ==
  LET a == IF t[i] = "-" THEN i + 1 ELSE i
      e == digitsEnd(t, a)
  IN IF e < a THEN 0
     ELSE IF e + 2 <= Len(t) /\ t[e + 1] = "." /\ t[e + 2] \in Digit
          THEN digitsEnd(t, e + 2)
          ELSE e

\* s.match(...): the leftmost match, <<>> for no match.
match(t) ==
  LET starts == {i \in DOMAIN t : matchAt(t, i) > 0} IN
    IF starts = {} THEN <<>>
    ELSE LET i == CHOOSE x \in starts : \A y \in starts : x <= y
         IN SubSeq(t, i, matchAt(t, i))

toNumber(v) ==
  IF v.kind \in {"null", "undefined"} THEN Null
  ELSE LET m == match(trim(removeCommas(v.chars))) IN
         IF m = <<>> THEN Null ELSE Number(m)

CallToNumber(v) ==
  /\ call = NoCall
  /\ call' = [fn |-> "toNumber", arg |-> v]
  /\ ret' = toNumber(v)
  /\ PageIdle

NextNum ==
  \/ call = NoCall /\ \E t \in Texts : CallToNumber(Str(t))
  \/ CallToNumber(NullArg)
  \/ CallToNumber(UndefinedArg)

SpecNum == Init /\ [][NextNum]_vars

\* ------------------------------------------------ trend and foreign-flow tags
MaxTenths == 55

MaxLots == 3001

RECURSIVE pow10(_)
pow10(n) == IF n = 0 THEN 1 ELSE 10 * pow10(n - 1)

\* x >= n, x <= n, Math.abs(x) for a number x and an integer n
GE(x, n) == x.mant >= n * pow10(x.scale)

LE(x, n) == x.mant <= n * pow10(x.scale)

Abs(x) == Num(IF x.mant < 0 THEN 0 - x.mant ELSE x.mant, x.scale)

\* v ?? 0, and Number(v) for null
OrZero(v) == IF v.null THEN Num(0, 0) ELSE v

\* Changes and percents of a quote: every tenth up to MaxTenths, or absent.
Amounts == {normal(m, 1) : m \in (0 - MaxTenths)..MaxTenths} \cup {Null}

\* Net lots of the foreign investors: whole lots, or absent.
Lots == {Num(n, 0) : n \in (0 - MaxLots)..MaxLots} \cup {Null}

\* {cls, lv} of a trend or of a tag; NoTag is the null of foreignTag().
Tag(c, l) == [cls |-> c, lv |-> l]

NoTag == Tag("none", "none")

\* A classifier that keeps the strength level of a quote that did not move.
trendInfoKeepsLevel(change, changePct) ==
  LET absP == Abs(OrZero(changePct))
      lv == IF GE(absP, 3) THEN "lv3" ELSE IF GE(absP, 1) THEN "lv2" ELSE "lv1"
  IN IF OrZero(change).mant > 0 THEN Tag("pos", lv)
     ELSE IF OrZero(change).mant < 0 THEN Tag("neg", lv)
     ELSE Tag("flat", lv)

trendInfo(change, changePct) ==
  LET c == OrZero(change)
      p == OrZero(changePct)
      absP == Abs(p)
      lv == IF GE(absP, 3) THEN "lv3" ELSE IF GE(absP, 1) THEN "lv2" ELSE "lv1"
  IN IF c.mant > 0 THEN Tag("pos", lv)
     ELSE IF c.mant < 0 THEN Tag("neg", lv)
     ELSE Tag("flat", "lv1")

badgeForChange(chg) ==
  LET x == OrZero(chg)
      abs == Abs(x)
      lv == IF GE(abs, 5) THEN "lv3" ELSE IF GE(abs, 1) THEN "lv2" ELSE "lv1"
  IN IF x.mant = 0 THEN Tag("flat", "none")
     ELSE Tag(IF x.mant > 0 THEN "pos" ELSE "neg", lv)

\* A tagger for which 3000 lots are not yet strong.
foreignTagAbove(net) ==
  IF net.null \/ ~GE(Abs(net), 800) THEN NoTag
  ELSE Tag(IF net.mant > 0 THEN "pos" ELSE "neg",
           IF GE(Abs(net), 3001) THEN "lv3" ELSE "lv2")

foreignTag(net) ==
  IF net.null THEN NoTag
  ELSE LET absN == Abs(net) IN
    IF ~GE(absN, 800) THEN NoTag
    ELSE IF GE(net, 3000) THEN Tag("pos", "lv3")
    ELSE IF GE(net, 800) THEN Tag("pos", "lv2")
    ELSE IF LE(net, 0 - 3000) THEN Tag("neg", "lv3")
    ELSE Tag("neg", "lv2")

badgeForForeignLots(netLots) ==
  LET x == OrZero(netLots) IN
    IF ~GE(Abs(x), 800) THEN NoTag
    ELSE Tag(IF x.mant > 0 THEN "pos" ELSE "neg",
             IF GE(Abs(x), 3000) THEN "lv3" ELSE "lv2")

\* renderStockCard(): trendInfo(toNumber(price.change), toNumber(price.change_pct))
CallTrendInfo(change, changePct) ==
  /\ ver # "main"
  /\ call = NoCall
  /\ call' = [fn |-> "trendInfo", change |-> change, pct |-> changePct]
  /\ ret' = trendInfo(change, changePct)
  /\ PageIdle

\* stockCardFromData(): badgeForChange(stock.change), beside stock.pct
CallBadgeForChange(change, pct) ==
  /\ ver = "main"
  /\ call = NoCall
  /\ call' = [fn |-> "badgeForChange", change |-> change, pct |-> pct]
  /\ ret' = badgeForChange(change)
  /\ PageIdle

CallForeignTag(net) ==
  /\ ver # "main"
  /\ call = NoCall
  /\ call' = [fn |-> "foreignTag", net |-> net]
  /\ ret' = foreignTag(net)
  /\ PageIdle

CallBadgeForForeignLots(net) ==
  /\ ver = "main"
  /\ call = NoCall
  /\ call' = [fn |-> "badgeForForeignLots", net |-> net]
  /\ ret' = badgeForForeignLots(net)
  /\ PageIdle

NextTag ==
  \/ call = NoCall /\ \E c, p \in Amounts : CallTrendInfo(c, p)
  \/ call = NoCall /\ \E c, p \in Amounts : CallBadgeForChange(c, p)
  \/ call = NoCall /\ \E n \in Lots : CallForeignTag(n)
  \/ call = NoCall /\ \E n \in Lots : CallBadgeForForeignLots(n)

SpecTag == Init /\ [][NextTag]_vars

\* ------------------------------------------------ parseZgb, parseZgkD
MaxBlocks == 5

RowCap == 6

BuyCap == 50

\* The lines of a document (Latin stand-ins for the Chinese header words).
HeaderZgb ==
  << <<"b", "r", "o", "k", "e", "r">>, <<"b", "u", "y">>,
     <<"s", "e", "l", "l">>, <<"d", "i", "f", "f">> >>

HeaderZgk ==
  << <<"r", "a", "n", "k">>, <<"s", "t", "o", "c", "k">>, <<"l", "o", "t", "s">>,
     <<"c", "l", "o", "s", "e">>, <<"c", "h", "g">> >>

\* A broker's group of four lines, and the group of a security ("2345").
BrokerGroup == << <<"J", "P">>, <<"1", ",", "2", "0", "0">>, <<"9", "0", "0">>, <<"3", "0", "0">> >>

StockGroup == << T2303, <<"5", "0">>, <<"7", "0">>, <<"-", "2", "0">> >>

\* A line of blanks and a line of other text with blanks around it.
NoteLines == << <<" ">>, <<" ", "n", "o", "t", "e", " ">> >>

\* One entry of the ranking: buy side and sell side, five lines each.
RankGroup ==
  << <<"1">>, <<"T", "S">>, <<"1", ",", "2", "0", "0">>, <<"9", "0", "0">>, <<"3", ".", "5">>,
     <<"1">>, <<"U", "M">>, <<"8", "0", "0">>, <<"5", "0">>, <<"-", "1", ".", "5">> >>

\* An entry whose sell side is empty.
RankGroupBuyOnly ==
  << <<"2">>, <<"T", "S">>, <<"1", ",", "2", "0", "0">>, <<"9", "0", "0">>, <<"3", ".", "5">>,
     <<"-">>, <<"-">>, <<"-">>, <<"-">>, <<"-">> >>

\* An entry whose buy side is empty.
RankGroupSellOnly ==
  << <<"-">>, <<"-">>, <<"-">>, <<"-">>, <<"-">>,
     <<"2">>, <<"U", "M">>, <<"8", "0", "0">>, <<"5", "0">>, <<"-", "1", ".", "5">> >>

\* An entry with both ranks whose buy side has no close and whose sell side has
\* no volume.
RankGroupNoClose ==
  << <<"2">>, <<"T", "S">>, <<"1", ",", "2", "0", "0">>, <<"-", "-">>, <<"3", ".", "5">>,
     <<"2">>, <<"U", "M">>, <<"-", "-">>, <<"5", "0">>, <<"-", "1", ".", "5">> >>

RECURSIVE Flatten(_)
Flatten(ss) == IF ss = <<>> THEN <<>> ELSE Head(ss) \o Flatten(Tail(ss))

RECURSIVE Times(_, _)
Times(b, n) == IF n = 0 THEN <<>> ELSE b \o Times(b, n - 1)

ZgbBlocks ==
  {HeaderZgb, BrokerGroup, StockGroup, NoteLines, Times(BrokerGroup, RowCap)}

ZgkBlocks == {HeaderZgk, RankGroup, RankGroupBuyOnly, NoteLines}

\* Rankings about as long as the cap on the buy rows: the header and BuyCap - 1
\* to BuyCap + 1 entries.
LongRankings ==
  {HeaderZgk \o Times(RankGroup, n) : n \in (BuyCap - 1)..(BuyCap + 1)}

\* Rankings with a one-sided or an incomplete entry, alone and among
\* well-formed ones.
OddRankings ==
  {HeaderZgk \o Times(RankGroup, n) \o g \o Times(RankGroup, m) :
     n, m \in 0..1, g \in {RankGroupSellOnly, RankGroupNoClose}}

\* data.fubon_zgb.raw / data.fubon_zgk_d.raw: the text as its lines, or absent.
Raw(ls) == [null |-> FALSE, lines |-> ls]

NoRaw == [null |-> TRUE, lines |-> <<>>]

Documents(blocks) == {Raw(Flatten(d)) : d \in UNION {[1..n -> blocks] : n \in 0..MaxBlocks}}

\* !raw: absent, or the empty string
Falsy(raw) == raw.null \/ raw.lines = <<>>

\* text.split("\n").map((s) => s.trim()).filter((s) => s.length)
cleanLines(raw) ==
  SelectSeq([i \in DOMAIN raw.lines |-> trim(raw.lines[i])], LAMBDA l : l # <<>>)

\* lines[i .. i + n - 1] equal the header, line by line
headerAt(lines, i, header) ==
  \A n \in DOMAIN header : i + n - 1 <= Len(lines) /\ lines[i + n - 1] = header[n]

\* /^\d+$/
allDigits(l) == l # <<>> /\ \A i \in DOMAIN l : l[i] \in Digit

isBrokerName(name) == name # <<>> /\ name[1] \notin Digit

ZgbRow(n, b, sl, d) == [name |-> n, buy |-> b, sell |-> sl, diff |-> d]

ZgbResult(r, e) == [rows |-> r, error |-> e]

\* A loop that takes a digit-prefixed name for the end of the table.
RECURSIVE parseLoopStopsAtCode(_, _, _)
parseLoopStopsAtCode(lines, j, rows) ==
  IF ~(j + 3 <= Len(lines)) THEN rows
  ELSE LET name == lines[j]
           nb == toNumber(Str(lines[j + 1]))
           ns == toNumber(Str(lines[j + 2]))
           nd == toNumber(Str(lines[j + 3]))
       IN IF nb.null \/ ns.null \/ nd.null \/ ~isBrokerName(name) THEN rows
          ELSE LET rows2 == Append(rows, ZgbRow(name, nb, ns, nd))
               IN IF Len(rows2) >= RowCap THEN rows2
                  ELSE parseLoopStopsAtCode(lines, j + 4, rows2)

\* parseAt(): the while loop from line j on, rows collected so far
RECURSIVE parseLoop(_, _, _)
parseLoop(lines, j, rows) ==
  IF ~(j + 3 <= Len(lines)) THEN rows
  ELSE LET name == lines[j]
           nb == toNumber(Str(lines[j + 1]))
           ns == toNumber(Str(lines[j + 2]))
           nd == toNumber(Str(lines[j + 3]))
       IN IF nb.null \/ ns.null \/ nd.null THEN rows
          ELSE LET rows2 == IF isBrokerName(name)
                            THEN Append(rows, ZgbRow(name, nb, ns, nd))
                            ELSE rows
               IN IF Len(rows2) >= RowCap THEN rows2
                  ELSE parseLoop(lines, j + 4, rows2)

parseAt(lines, i) == parseLoop(lines, i + 4, <<>>)

\* the header positions, in the order of the scan
idxsZgb(lines) ==
  SelectSeq([i \in 1..Len(lines) |-> i],
            LAMBDA i : i <= Len(lines) - 4 /\ headerAt(lines, i, HeaderZgb))

\* the loop over idxs keeping the longest parse, the earlier one on a tie
RECURSIVE bestOf(_, _, _)
bestOf(lines, idxs, best) ==
  IF idxs = <<>> THEN best
  ELSE LET rows == parseAt(lines, Head(idxs)) IN
         bestOf(lines, Tail(idxs), IF Len(rows) > Len(best) THEN rows ELSE best)

\* A parser that settles for the first header.
parseZgbFirstHeader(raw) ==
  IF Falsy(raw) THEN ZgbResult(<<>>, "no-data")
  ELSE LET lines == cleanLines(raw)
           idxs == idxsZgb(lines)
           best == IF idxs = <<>> THEN <<>> ELSE parseAt(lines, Head(idxs))
       IN IF best = <<>> THEN ZgbResult(<<>>, "no-section")
          ELSE ZgbResult(best, "none")

parseZgb(raw) ==
  IF Falsy(raw) THEN ZgbResult(<<>>, "no-data")
  ELSE LET lines == cleanLines(raw)
           best == bestOf(lines, idxsZgb(lines), <<>>)
       IN IF best = <<>> THEN ZgbResult(<<>>, "no-section")
          ELSE ZgbResult(SubSeq(best, 1, IF Len(best) < RowCap THEN Len(best) ELSE RowCap),
                         "none")

CallParseZgb(raw) ==
  /\ call = NoCall
  /\ call' = [fn |-> "parseZgb", raw |-> raw]
  /\ ret' = parseZgb(raw)
  /\ PageIdle

\* ---- parseZgkD
RankRow(r, n, v, c, g) == [rank |-> r, name |-> n, vol |-> v, close |-> c, chg |-> g]

ZgkResult(b, sl, e) == [buy |-> b, sell |-> sl, error |-> e]

\* the ten cells at j: the buy row and the sell row
rowBuy(lines, j) ==
  RankRow(toNumber(Str(lines[j])), lines[j + 1], toNumber(Str(lines[j + 2])),
          toNumber(Str(lines[j + 3])), toNumber(Str(lines[j + 4])))

\* the loop without its cap on the buy rows
RECURSIVE rankLoopNoCap(_, _, _, _)
rankLoopNoCap(lines, j, buy, sell) ==
  IF ~(j + 9 <= Len(lines)) THEN ZgkResult(buy, sell, "none")
  ELSE IF ~allDigits(lines[j]) THEN ZgkResult(buy, sell, "none")
  ELSE rankLoopNoCap(lines, j + 10, Append(buy, rowBuy(lines, j)),
                     IF allDigits(lines[j + 5])
                     THEN Append(sell, rowBuy(lines, j + 5)) ELSE sell)

\* the while loop of parseZgkD from line j on
RECURSIVE rankLoop(_, _, _, _)
rankLoop(lines, j, buy, sell) ==
  IF ~(j + 9 <= Len(lines)) THEN ZgkResult(buy, sell, "none")
  ELSE IF ~allDigits(lines[j]) THEN ZgkResult(buy, sell, "none")
  ELSE LET buy2 == Append(buy, rowBuy(lines, j))
           sell2 == IF allDigits(lines[j + 5]) THEN Append(sell, rowBuy(lines, j + 5))
                    ELSE sell
       IN IF Len(buy2) >= BuyCap THEN ZgkResult(buy2, sell2, "none")
          ELSE rankLoop(lines, j + 10, buy2, sell2)

\* lines.findIndex(...): the first header position, 0 for none (-1 in the code)
headIdx(lines) ==
  LET heads == {i \in 1..Len(lines) : headerAt(lines, i, HeaderZgk)} IN
    IF heads = {} THEN 0 ELSE CHOOSE i \in heads : \A h \in heads : i <= h

parseZgkD(raw) ==
  IF Falsy(raw) THEN ZgkResult(<<>>, <<>>, "no-data")
  ELSE LET lines == cleanLines(raw)
           h == headIdx(lines)
       IN IF h = 0 THEN ZgkResult(<<>>, <<>>, "no-header")
          ELSE rankLoop(lines, h + 5, <<>>, <<>>)

CallParseZgkD(raw) ==
  /\ call = NoCall
  /\ call' = [fn |-> "parseZgkD", raw |-> raw]
  /\ ret' = parseZgkD(raw)
  /\ PageIdle

NextParse ==
  \/ call = NoCall /\ \E raw \in Documents(ZgbBlocks) \cup {NoRaw} : CallParseZgb(raw)
  \/ call = NoCall /\ \E raw \in Documents(ZgkBlocks) \cup {NoRaw} : CallParseZgkD(raw)
  \/ call = NoCall /\ \E ls \in LongRankings \cup OddRankings : CallParseZgkD(Raw(ls))

InitParse == Init /\ ver = "init"

SpecParse == InitParse /\ [][NextParse]_vars

\* ---------------------------------------------------------------- quotes
\* The month table of STOCK_DAY: one row per trading day, read by the three
\* quote adapters.  A row is the cells the adapters read: the date (row[0],
\* here the day of the month), the close (row[6]) and the change (row[7]).
MaxRows == 2

Days == 1..3

\* The closes and changes a cell can hold; "--" is what the table shows for a
\* day without a trade.
DayRows ==
  [day : Days,
   close : {<<"1", "0", "0">>, <<"1", "0", "2">>, <<"0">>, <<"-", "-">>},
   chg : {<<"+", "2">>, <<"-", "2">>}]

\* The tables of one to MaxRows rows, in any order, each day listed once.
Payloads ==
  {p \in UNION {[1..n -> DayRows] : n \in 1..MaxRows} :
     \A i, j \in DOMAIN p : i # j => p[i].day # p[j].day}

\* NaN, beside the numbers and null.
NaN == [null |-> FALSE, mant |-> 0, scale |-> 0 - 1]

IsNaN(x) == x.scale < 0

\* if (x) for a number, NaN or null
Truthy(x) == ~x.null /\ ~IsNaN(x) /\ x.mant # 0

\* a - b
sub(a, b) ==
  IF IsNaN(a) \/ IsNaN(b) THEN NaN
  ELSE LET s == IF a.scale > b.scale THEN a.scale ELSE b.scale
       IN normal(a.mant * pow10(s - a.scale) - b.mant * pow10(s - b.scale), s)

\* Number(s) of a whole string: blank is 0, an optionally signed decimal is
\* its value, any other text is NaN.
NumberOf(t) ==
  LET s == trim(t)
      u == IF s # <<>> /\ s[1] \in {"+", "-"} THEN Tail(s) ELSE s
  IN IF s = <<>> THEN Num(0, 0)
     ELSE IF u # <<>> /\ u[1] \in Digit /\ matchAt(u, 1) = Len(u)
          THEN Number(IF s[1] = "-" THEN s ELSE u)
          ELSE NaN

\* A quotient num / den (den > 0), and null.
Ratio(n, d) == [null |-> FALSE, num |-> n, den |-> d]

NoRatio == [null |-> TRUE, num |-> 0, den |-> 1]

\* (change / prevClose) * 100 for prevClose # 0; a null change counts as 0.
percentOf(change, prevClose) ==
  LET n == change.mant * 100 * pow10(prevClose.scale)
      d == prevClose.mant * pow10(change.scale)
  IN IF d < 0 THEN Ratio(0 - n, 0 - d) ELSE Ratio(n, d)

\* Math.round(n / d) for d > 0
Round(n, d) == (2 * n + d) \div (2 * d)

\* pct.toFixed(2), read back as a number
toFixed2(r) ==
  LET a == IF r.num < 0 THEN 0 - r.num ELSE r.num
      q == Round(a * 100, r.den)
  IN Ratio(IF r.num < 0 THEN 0 - q ELSE q, 100)

\* What an adapter hands to the card, with the record it was read from (day)
\* and the prior close it used (prevClose).
Quote(d, c, p, ch, pc100) ==
  [day |-> d, close |-> c, prevClose |-> p, change |-> ch, change_pct |-> pc100]

NullQuote == Quote(0, Null, Null, Null, NoRatio)

\* app.js (first copy) fetchTwsePrice(): the last two rows of the table.
twsePrice(rows) ==
  LET last == rows[Len(rows)]
      close == toNumber(Str(last.close))
      prevClose == IF Len(rows) >= 2
                   THEN toNumber(Str(rows[Len(rows) - 1].close)) ELSE Null
      change == IF prevClose.null \/ close.null THEN Null
                ELSE sub(close, prevClose)
      changePct == IF Truthy(prevClose) THEN percentOf(change, prevClose)
                   ELSE NoRatio
  IN Quote(last.day, close, prevClose, change, changePct)

\* part_000 fetchTwseStockDay(): the row of the day, else the last row.
twseStockDay(rows, ymd) ==
  LET found == {i \in DOMAIN rows : rows[i].day = ymd}
      row == IF found # {}
             THEN rows[CHOOSE i \in found : \A j \in found : i <= j]
             ELSE rows[Len(rows)]
      close == NumberOf(removeCommas(row.close))
      change == NumberOf(removeCommas(row.chg))
      prevClose == sub(close, change)
      pct == IF Truthy(prevClose) THEN percentOf(change, prevClose)
             ELSE Ratio(0, 1)
  IN Quote(row.day, close, prevClose, change, pct)

\* parsed.sort((a, b) => (a.ad > b.ad ? 1 : -1)) for rows of distinct days
RECURSIVE sortByDay(_)
sortByDay(rows) ==
  IF rows = <<>> THEN <<>>
  ELSE LET i == CHOOSE x \in DOMAIN rows :
                  \A y \in DOMAIN rows : rows[x].day <= rows[y].day
       IN <<rows[i]>> \o
          sortByDay(SubSeq(rows, 1, i - 1) \o SubSeq(rows, i + 1, Len(rows)))

\* app.js (second copy) fetchPriceChangePct(): the rows that parse, sorted,
\* the row of the day, else the last; an exception inside gives nulls.
priceChangePct(rows, latestTradingDay) ==
  LET parsed == sortByDay(SelectSeq(rows, LAMBDA r :
                    /\ ~toNumber(Str(r.close)).null
                    /\ ~toNumber(Str(r.chg)).null))
      found == {i \in DOMAIN parsed : parsed[i].day = latestTradingDay}
      idx == IF found # {} THEN CHOOSE i \in found : TRUE ELSE Len(parsed)
  IN IF parsed = <<>> THEN NullQuote
     ELSE LET cur == parsed[idx]
              close == toNumber(Str(cur.close))
              prevClose == IF idx - 1 >= 1
                           THEN toNumber(Str(parsed[idx - 1].close)) ELSE Null
              pct == IF Truthy(prevClose)
                     THEN toFixed2(percentOf(sub(close, prevClose), prevClose))
                     ELSE NoRatio
          IN Quote(cur.day, close, prevClose, toNumber(Str(cur.chg)), pct)

\* ---------------------------------------------------------------- foreign flow
\* The net-shares cell of the security's row in the T86 table (row[4]).
ShareCells ==
  {<<"0">>, <<"7", "9", "9", ",", "6", "0", "0">>,
   <<"1", ",", "0", "0", "0", ",", "0", "0", "0">>,
   <<"-", "3", ",", "0", "0", "0", ",", "0", "0", "0">>,
   <<"2", ",", "9", "9", "9", ",", "4", "9", "9">>, <<"-", "-">>}

RECURSIVE digitsOf(_)
digitsOf(n) ==
  LET digit(d) == <<"0", "1", "2", "3", "4", "5", "6", "7", "8", "9">>[d + 1]
  IN IF n < 10 THEN <<digit(n)>>
     ELSE digitsOf(n \div 10) \o <<digit(n % 10)>>

RECURSIVE grouped(_)
grouped(ds) ==
  IF Len(ds) <= 3 THEN ds
  ELSE grouped(SubSeq(ds, 1, Len(ds) - 3)) \o <<",">>
       \o SubSeq(ds, Len(ds) - 2, Len(ds))

\* n.toLocaleString("en-US") for an integer n
toLocaleString(n) ==
  IF n < 0 THEN <<"-">> \o grouped(digitsOf(0 - n)) ELSE grouped(digitsOf(n))

\* What the card is handed (d0), the figure it shows, the number it passes to
\* the tag function, and the tag.
Foreign(shown, tagged, tag) ==
  [shown |-> shown, tagged |-> tagged, tag |-> tag]

\* app.js (second copy) fetchForeignLots() and renderStockCard():
\* Math.round(netShares / 1000) as text, read back with toNumber().
foreignLotsOf(cell) ==
  LET netShares == toNumber(Str(cell))
      d0 == IF netShares.null THEN NullArg
            ELSE Str(toLocaleString(
                   Round(netShares.mant, 1000 * pow10(netShares.scale))))
      foreignLots == toNumber(d0)
  IN Foreign(foreignLots, foreignLots, foreignTag(foreignLots))

\* app.js (first copy) fetchTwseForeignD0() and renderStockCard(): D0 is the
\* cell itself.
foreignD0Of(cell) ==
  LET foreignVal == toNumber(Str(cell))
  IN Foreign(foreignVal, foreignVal, foreignTag(foreignVal))

\* part_000 fetchTwseT86Map() and stockCardFromData(): net_lots = net / 1000,
\* shown with no decimals.
t86NetLots(cell) ==
  LET n == NumberOf(removeCommas(cell))
      net == IF Truthy(n) THEN n ELSE Num(0, 0)
      lots == normal(net.mant, net.scale + 3)
      a == Round(Abs(lots).mant, pow10(lots.scale))
  IN Foreign(Num(IF lots.mant < 0 THEN 0 - a ELSE a, 0), lots,
             badgeForForeignLots(lots))

extraForeign(v, cell) ==
  CASE v = "main" -> t86NetLots(cell)
    [] v = "init" -> foreignD0Of(cell)
    [] v = "renderAll" -> foreignLotsOf(cell)

CallExtraForeign(cell) ==
  /\ call = NoCall
  /\ call' = [fn |-> "foreign", cell |-> cell]
  /\ ret' = extraForeign(ver, cell)
  /\ PageIdle

CallTwsePrice(rows) ==
  /\ ver = "init"
  /\ call = NoCall
  /\ call' = [fn |-> "fetchTwsePrice", rows |-> rows, day |-> 0]
  /\ ret' = twsePrice(rows)
  /\ PageIdle

CallTwseStockDay(rows, ymd) ==
  /\ ver = "main"
  /\ call = NoCall
  /\ call' = [fn |-> "fetchTwseStockDay", rows |-> rows, day |-> ymd]
  /\ ret' = twseStockDay(rows, ymd)
  /\ PageIdle

CallPriceChangePct(rows, latestTradingDay) ==
  /\ ver = "renderAll"
  /\ call = NoCall
  /\ call' = [fn |-> "fetchPriceChangePct", rows |-> rows,
              day |-> latestTradingDay]
  /\ ret' = priceChangePct(rows, latestTradingDay)
  /\ PageIdle

NextQuote ==
  \/ call = NoCall /\ \E rows \in Payloads : CallTwsePrice(rows)
  \/ call = NoCall /\ \E rows \in Payloads, d \in Days : CallTwseStockDay(rows, d)
  \/ call = NoCall /\ \E rows \in Payloads, d \in Days : CallPriceChangePct(rows, d)
  \/ call = NoCall /\ \E cell \in ShareCells : CallExtraForeign(cell)

SpecQuote == Init /\ [][NextQuote]_vars

\* ---------------------------------------------------------------- readings of the state
Loaded == pc \notin {"boot", "failed"}

\* No invocation is suspended at a fetch.
Quiet == pc = "done" /\ runs = <<>>

Tickers(cards) == [i \in DOMAIN cards |-> cards[i].ticker]

ExtraCards(g) == SelectSeq(g, LAMBDA c : c.extra)

FixedCards(g) == SelectSeq(g, LAMBDA c : ~c.extra)

NoDup(s) == \A i, j \in DOMAIN s : i # j => s[i] # s[j]

RECURSIVE Dedupe(_)
Dedupe(s) ==
  IF s = <<>> THEN <<>>
  ELSE LET r == Dedupe(SubSeq(s, 1, Len(s) - 1))
       IN IF s[Len(s)] \in Range(r) THEN r ELSE Append(r, s[Len(s)])

\* ---------------------------------------------------------------- C1
\* C1: last caller wins: once every invocation is over, the extension cards in
\* the grid are exactly the cards of the most recently issued invocation,
\* whatever the order in which the fetches resolved.
C1_LastCallerWins == Quiet => Tickers(ExtraCards(grid)) = latest

\* ---------------------------------------------------------------- C2
\* C2: in every state the grid shows no stale card (every extension card is of
\* a ticker of the most recently issued invocation) and no duplicate card (at
\* most one card per ticker).  The duplicate half is read for the calls whose
\* own list is duplicate-free and holds no fixed ticker, so that a violation
\* is one that the interleaving of invocations produces.
C2_NoStaleNoDuplicate ==
  /\ \A c \in Range(ExtraCards(grid)) : c.ticker \in Range(latest)
  /\ (NoDup(latest) /\ Range(latest) \cap FixedSet = {}) => NoDup(Tickers(grid))

\* ---------------------------------------------------------------- C3
\* C3: the output of one invocation holds at most one card per ticker, for
\* every user input (two equal entries, an entry equal to a fixed ticker).
C3_OneCardPerTicker == NoDup(Tickers(grid))

\* ---------------------------------------------------------------- C4
\* C4: every extension ticker handed to a fetch as its lookup key, or shown as
\* a card, matches ^[0-9]{4,6}$.
C4_KeysAreTickerIds ==
  /\ pc \in {"day", "price"} => MatchesTickerId(ext[k])
  /\ \A n \in DOMAIN runs : MatchesTickerId(runs[n].ext[runs[n].i])
  /\ \A c \in Range(ExtraCards(grid)) : MatchesTickerId(c.ticker)

\* ---------------------------------------------------------------- C5
\* C5: the extension list renderAll() renders is the stored input without its
\* invalid entries and without duplicates, first occurrences in order, cut to
\* 2 entries; and the persisted preference never holds more than 2 entries.
C5_CleanedList ==
  /\ (ver = "renderAll" /\ Loaded) =>
       latest = slice2(Dedupe(SelectSeq(MapTrim(store), isValidTicker)))
  /\ Len(store) <= 2

\* ---------------------------------------------------------------- C6
HasReason(c) == "reason" \in {c.title, c.quote, c.foreign}

\* The fixed cards the loaded feed gives, by the version's own rendering.
FeedCards == IF ver = "main" THEN renderStocksMain(data, <<>>) ELSE fixedCards(data)

\* C6: whatever the fetches of the extension tickers do, the fixed cards are
\* those the feed gives, every extension ticker of the invocation gets its one
\* card, and the card of a ticker with a failed fetch carries a failure reason.
C6_EntityIsolation ==
  Loaded =>
    /\ FixedCards(grid) = FeedCards
    /\ Quiet => Tickers(ExtraCards(grid)) = latest
    /\ \A c \in Range(ExtraCards(grid)) :
         (c.quote # "value" \/ c.foreign # "value") => HasReason(c)

\* ---------------------------------------------------------------- C7
\* C7: on the card of an extension ticker each of the two sub-sections shows
\* its value or its own failure reason (the card's title counts for the
\* quote), and a foreign-flow value that was obtained (part_000: the ticker is
\* in the prefetched T86 map) is shown whatever the quote fetch did.
C7_SectionIsolation ==
  \A c \in Range(ExtraCards(grid)) :
    /\ c.quote = "value" \/ "reason" \in {c.quote, c.title}
    /\ c.foreign \in {"value", "reason"}
    /\ (ver = "main" /\ t86Map.ok /\ c.ticker \in t86Map.has) => c.foreign = "value"

\* ---------------------------------------------------------------- C8
\* C8 as stated: no source adapter ever throws or rejects.
C8_AdaptersNeverThrow == ~raised

\* C8, amended: the adapters do throw, and no exception leaves the invocation:
\* the caller's try/catch turns each into a failure value, and the invocation
\* goes on: the page is never left in its failed state by an adapter.
C8_NoExceptionEscapes == ~escaped /\ (raised => Loaded)

C8_Witness == raised /\ Quiet /\ Len(ExtraCards(grid)) = 2

\* ---------------------------------------------------------------- C9
\* C9: a completed invocation shows the fixed tickers first, in the canonical
\* order 2330, 2317, 3231, 2382 whatever the key order of the feed, then the
\* extension tickers in input order.
C9_CanonicalOrder ==
  Quiet =>
    Tickers(grid) = SelectSeq(FIXED, LAMBDA tk : HasStock(data, tk)) \o latest

\* ---------------------------------------------------------------- C10
\* C10 as stated: whatever the feed lacks, the output holds one card for each
\* of the four fixed tickers.
C10_AllFixedAlways ==
  Loaded =>
    \A tk \in FixedSet :
      Cardinality({i \in DOMAIN grid : ~grid[i].extra /\ grid[i].ticker = tk}) = 1

\* C10, amended: every fixed ticker that has an entry in the feed gets exactly
\* one card whatever the state of its fields (a foreign field with an error
\* shows the reason, an absent one the placeholder); a fixed ticker without an
\* entry gets no card.
C10_PresentFixedIncluded ==
  Loaded =>
    /\ Range(Tickers(FixedCards(grid))) = Range(data.keys)
    /\ NoDup(Tickers(FixedCards(grid)))
    /\ \A c \in Range(FixedCards(grid)) :
         /\ c.quote = "value"
         /\ c.foreign = CASE ForeignOf(data, c.ticker) = "value" -> "value"
                          [] ForeignOf(data, c.ticker) = "error" -> "reason"
                          [] OTHER -> "dash"

C10_Witness ==
  /\ ver = "main"
  /\ pc = "done"
  /\ T3231 \notin Range(data.keys)
  /\ Len(FixedCards(grid)) = 3
  /\ \E c \in Range(FixedCards(grid)) : c.ticker = T2317 /\ c.foreign = "dash"

\* The apply and clear handlers of the three entry points.
ApplyOrClear ==
  \/ \E v1, v2 \in Inputs : MainApply(v1, v2) \/ InitApply(v1, v2) \/ AllApply(v1, v2)
  \/ MainClear
  \/ InitClear
  \/ AllClear

\* C11: the persisted extension-set preference is written only by the user
\* actions apply and clear; every step of the load/fetch/render pipeline,
\* its failure paths included, leaves it as it was.
C11_OnlyApplyAndClearWrite == [][store' # store => ApplyOrClear]_vars

\* The user has applied a preference and the pipeline that then ran over it is
\* over, a fetch having failed on the way.
C11_Witness ==
  /\ acts = 1
  /\ store # EmptyStore(ver)
  /\ Quiet
  /\ raised \/ \E c \in Range(ExtraCards(grid)) : c.quote # "value"

\* C12: for every fixed ticker and every state of the futures part of the feed
\* the futures section of the card shows either the position figures or a
\* failure reason - the feed's error text when there is one, the built-in
\* reason otherwise; it is never empty.
C12_FuturesFiguresOrReason ==
  (call.fn = "futures" /\ call.ticker \in FixedSet /\ ~call.extra) =>
    /\ ret.shown \in {"figures", "reason"}
    /\ ret.shown = "figures" => call.fut.pos
    /\ ret.shown = "reason" =>
         ret.text = IF call.fut.err THEN "feed" ELSE "default"

\* A fixed card whose positions are missing and whose feed says why.
C12_Witness ==
  /\ call.fn = "futures"
  /\ call.ticker = T3231
  /\ ~call.extra
  /\ ~call.fut.pos
  /\ call.fut.err
  /\ ret = FutHtml("reason", "feed")

\* What a reader takes for a number in a text: an optional sign, digits that
\* may be grouped in threes by commas, an optional fraction.
IsDigits(t) == t # <<>> /\ \A i \in DOMAIN t : t[i] \in Digit

IsGroupedInt(t) ==
  \/ IsDigits(t)
  \/ /\ Len(t) >= 5
     /\ t[1] \in Digit
     /\ \A i \in DOMAIN t :
          IF (Len(t) - i + 1) % 4 = 0 THEN t[i] = "," ELSE t[i] \in Digit

IsUnsignedDecimal(t) ==
  \/ IsGroupedInt(t)
  \/ \E q \in DOMAIN t :
       /\ t[q] = "."
       /\ IsGroupedInt(SubSeq(t, 1, q - 1))
       /\ IsDigits(SubSeq(t, q + 1, Len(t)))

IsSignedDecimal(t) ==
  /\ t # <<>>
  /\ IsUnsignedDecimal(IF t[1] = "-" THEN Tail(t) ELSE t)

\* The first signed decimal number of a text: of the stretches that read as a
\* number the one that starts first, taken as far as it goes.
FirstNumber(t) ==
  LET found == {ij \in (DOMAIN t) \X (DOMAIN t) :
                  ij[1] <= ij[2] /\ IsSignedDecimal(SubSeq(t, ij[1], ij[2]))}
  IN IF found = {} THEN Null
     ELSE LET ij == CHOOSE x \in found : \A y \in found :
                      x[1] < y[1] \/ (x[1] = y[1] /\ x[2] >= y[2])
          IN Number(removeCommas(SubSeq(t, ij[1], ij[2])))

\* C13: toNumber returns exactly the first signed decimal number of the text,
\* whatever thousands separators and other text surround it, and null (never
\* 0) for null, undefined and a text with no digit.
C13_FirstSignedDecimal ==
  call.fn = "toNumber" =>
    IF call.arg.kind = "string"
    THEN /\ ret = FirstNumber(call.arg.chars)
         /\ ret = Null <=> \A i \in DOMAIN call.arg.chars : call.arg.chars[i] \notin Digit
    ELSE ret = Null

\* The strength tier the percent of change stands for.
Tier(pct) ==
  IF GE(Abs(OrZero(pct)), 3) THEN "lv3"
  ELSE IF GE(Abs(OrZero(pct)), 1) THEN "lv2"
  ELSE "lv1"

\* C14: every trend classifier of the repository assigns the strength tier
\* from the absolute change percent: tier3 from 3, tier2 from 1, tier1 below
\* (a quote that did not move is left to C15).
C14_TierByPercent ==
  (call.fn \in {"trendInfo", "badgeForChange"} /\ ret.cls # "flat") =>
    ret.lv = Tier(call.pct)

\* C15: the direction of a trend is the sign of change - up above 0, down
\* below 0, flat for 0 or no change at all - and a flat trend is tier1
\* whatever the change percent.
C15_DirectionBySign ==
  call.fn = "trendInfo" =>
    /\ ret.cls = IF call.change.null THEN "flat"
                 ELSE IF call.change.mant > 0 THEN "pos"
                 ELSE IF call.change.mant < 0 THEN "neg"
                 ELSE "flat"
    /\ ret.cls = "flat" => ret.lv = "lv1"

\* A quote that did not move although its percent field says 3 or more.
C15_Witness ==
  /\ call.fn = "trendInfo"
  /\ call.change = Num(0, 0)
  /\ call.pct = Num(3, 0)
  /\ ret = Tag("flat", "lv1")

\* The tag the net lots stand for.
TagOf(net) ==
  IF net.null THEN NoTag
  ELSE IF net.mant >= 3000 * pow10(net.scale) THEN Tag("pos", "lv3")
  ELSE IF net.mant >= 800 * pow10(net.scale) THEN Tag("pos", "lv2")
  ELSE IF net.mant <= (0 - 3000) * pow10(net.scale) THEN Tag("neg", "lv3")
  ELSE IF net.mant <= (0 - 800) * pow10(net.scale) THEN Tag("neg", "lv2")
  ELSE NoTag

\* C16: foreign-flow tagging is a total function of the net lots - no tag
\* below 800 in absolute value or when absent, buy from 800, strong buy from
\* 3000, sell from -800, strong sell from -3000 - and both tagging functions
\* give every input the same direction and strength.
C16_ForeignTagLevels ==
  call.fn \in {"foreignTag", "badgeForForeignLots"} =>
    /\ ret = TagOf(call.net)
    /\ foreignTag(call.net) = badgeForForeignLots(call.net)

\* The six inputs the boundaries are named by, each tagged as stated.
C16_Witness ==
  /\ call.fn = "badgeForForeignLots"
  /\ call.net = Num(0 - 3000, 0)
  /\ ret = Tag("neg", "lv3")
  /\ <<foreignTag(Num(799, 0)), foreignTag(Num(800, 0)), foreignTag(Num(2999, 0)),
        foreignTag(Num(3000, 0)), foreignTag(Num(0 - 800, 0))>>
       = <<NoTag, Tag("pos", "lv2"), Tag("pos", "lv2"), Tag("pos", "lv3"),
           Tag("neg", "lv2")>>

\* Every place of a document where the broker-flow header stands.
ZgbHeaders(lines) == {i \in 1..Len(lines) : headerAt(lines, i, HeaderZgb)}

\* C17: when the broker-flow header occurs several times the result is the
\* parse of the occurrence that admits the most rows, wherever it stands.
C17_MostAdmittedRows ==
  (call.fn = "parseZgb" /\ ~Falsy(call.raw)) =>
    LET lines == cleanLines(call.raw)
        heads == ZgbHeaders(lines)
    IN (\E i \in heads : parseAt(lines, i) # <<>>) =>
         /\ ret.error = "none"
         /\ \E i \in heads : ret.rows = parseAt(lines, i)
         /\ \A i \in heads : Len(parseAt(lines, i)) <= Len(ret.rows)

\* Two occurrences, the first with fewer rows than the second, and the rows
\* of the second returned.
C17_Witness ==
  /\ call.fn = "parseZgb"
  /\ ~Falsy(call.raw)
  /\ LET lines == cleanLines(call.raw) IN
       \E i, j \in ZgbHeaders(lines) :
         /\ i < j
         /\ 0 < Len(parseAt(lines, i))
         /\ Len(parseAt(lines, i)) < Len(parseAt(lines, j))
         /\ ret.rows = parseAt(lines, j)

\* The groups of four lines that follow a header for as long as their three
\* amounts hold a number, as their names.
RECURSIVE GroupNames(_, _)
GroupNames(lines, j) ==
  IF j + 3 <= Len(lines) /\ \A n \in 1..3 : \E c \in Range(lines[j + n]) : c \in Digit
  THEN <<lines[j]>> \o GroupNames(lines, j + 4)
  ELSE <<>>

FirstOf(ss, n) == SubSeq(ss, 1, IF Len(ss) < n THEN Len(ss) ELSE n)

\* C19: no row of the broker-flow parser has a name that starts with a digit;
\* such a group is left out without ending the parse and without counting
\* toward the cap, so the broker rows after it are admitted.
C19_NoDigitPrefixedRow ==
  (call.fn = "parseZgb" /\ ~Falsy(call.raw)) =>
    LET lines == cleanLines(call.raw) IN
      /\ \A r \in Range(ret.rows) : r.name[1] \notin Digit
      /\ \A i \in ZgbHeaders(lines) :
           LET rows == parseAt(lines, i) IN
             [n \in DOMAIN rows |-> rows[n].name]
               = FirstOf(SelectSeq(GroupNames(lines, i + 4), LAMBDA l : l[1] \notin Digit),
                         RowCap)

\* A security's group right under the header, then a full table of brokers:
\* all of them are returned.
C19_Witness ==
  /\ call.fn = "parseZgb"
  /\ call.raw.lines = HeaderZgb \o StockGroup \o Times(BrokerGroup, RowCap)
  /\ Len(ret.rows) = RowCap
  /\ ret.error = "none"

\* Every place of a document where the ranking header stands.
ZgkHeaders(lines) == {i \in 1..Len(lines) : headerAt(lines, i, HeaderZgk)}

\* C18: every place where the ranking header matches is a candidate, and when
\* the header occurs more than once the parse that admits the most rows is
\* returned, not necessarily that of the first occurrence.
C18_RankingBestOccurrence ==
  (call.fn = "parseZgkD" /\ ~Falsy(call.raw)) =>
    LET lines == cleanLines(call.raw) IN
      \A i \in ZgkHeaders(lines) :
        Len(rankLoop(lines, i + 5, <<>>, <<>>).buy) <= Len(ret.buy)

\* C20: a parser tells which assumption broke - one reason when the header is
\* not found, another when a header is found but no row is admitted - and
\* never reports a parse without rows as a success; so for the broker-flow
\* and for the ranking parser.
C20_ReasonTellsCause ==
  /\ (call.fn = "parseZgb" /\ ~Falsy(call.raw) /\ ret.rows = <<>>) =>
       /\ ret.error # "none"
       /\ ZgbHeaders(cleanLines(call.raw)) # {} =>
            ret.error # parseZgb(Raw(NoteLines)).error
  /\ (call.fn = "parseZgkD" /\ ~Falsy(call.raw) /\ ret.buy = <<>>) =>
       /\ ret.error # "none"
       /\ ZgkHeaders(cleanLines(call.raw)) # {} =>
            ret.error # parseZgkD(Raw(NoteLines)).error

\* C21: a ranking document whose header is the five labels twice over (buy
\* side, sell side) followed by well-formed groups of ten lines is parsed with
\* the ten lines as its header, and the groups come back as buy and sell rows.
C21_DualHeader ==
  call.fn = "parseZgkD" =>
    \A n \in 1..MaxBlocks :
      call.raw.lines = HeaderZgk \o HeaderZgk \o Times(RankGroup, n) =>
        /\ ret.error = "none"
        /\ Len(ret.buy) = n
        /\ Len(ret.sell) = n

\* C22: the percent change of a quote is (close - prevClose) / prevClose * 100
\* when the prior close is known and not zero and the close is known, and it
\* is absent (null, never 0) when the prior close is unknown or zero or the
\* close is unknown.
C22_PercentOfPriorClose ==
  call.fn \in {"fetchTwsePrice", "fetchTwseStockDay"} =>
    LET known(x) == ~x.null /\ ~IsNaN(x)
        want == percentOf(sub(ret.close, ret.prevClose), ret.prevClose)
    IN IF known(ret.close) /\ known(ret.prevClose) /\ ret.prevClose.mant # 0
       THEN /\ ~ret.change_pct.null
            /\ ret.change_pct.num * want.den = want.num * ret.change_pct.den
       ELSE ret.change_pct.null

Sign(n) == IF n > 0 THEN 1 ELSE IF n < 0 THEN 0 - 1 ELSE 0

\* C23: in every quote read from a month table the change and the percent
\* change have the same sign (both positive, both negative or both zero)
\* whenever both are present, and the percent change is absent when the table
\* holds no prior close for the record.
C23_SameSign ==
  call.fn \in {"fetchTwsePrice", "fetchPriceChangePct"} =>
    /\ (~ret.change.null /\ ~ret.change_pct.null) =>
         Sign(ret.change.mant) = Sign(ret.change_pct.num)
    /\ ret.prevClose.null => ret.change_pct.null

\* C25: when the month table holds a record of the requested trading day the
\* quote returned is that record, whatever the order of the rows, and its
\* prior close is the close of the latest record dated before that day, never
\* of a later one: the adapters that read the prior close from a record have
\* none when no record is dated before.  fetchTwsePrice() is passed no day:
\* the day of the record it returns stands for the requested one.
C25_RecordOfTheDay ==
  call.fn \in {"fetchTwsePrice", "fetchTwseStockDay", "fetchPriceChangePct"} =>
    LET rows == call.rows
        want == IF call.fn = "fetchTwsePrice" THEN ret.day ELSE call.day
        before == {i \in DOMAIN rows : rows[i].day < want}
    IN (\E i \in DOMAIN rows : rows[i].day = want) =>
         /\ ret.day = want
         /\ before # {} =>
              LET prior == CHOOSE i \in before :
                             \A j \in before : rows[j].day <= rows[i].day
              IN ret.prevClose = toNumber(Str(rows[prior].close))
         /\ (before = {} /\ call.fn # "fetchTwseStockDay") => ret.prevClose.null

\* C24: the foreign figure an extension ticker's card shows and tags is in
\* board lots: the net shares of the table divided by 1000 and rounded to an
\* integer.  The tag thresholds are applied to that integer, never to the
\* share count or to the unrounded quotient.
C24_ForeignInLots ==
  call.fn = "foreign" =>
    LET netShares == toNumber(Str(call.cell)) IN
      ~netShares.null =>
        LET lots == Num(Round(netShares.mant, 1000 * pow10(netShares.scale)), 0)
        IN /\ ret.shown = lots
           /\ ret.tagged = lots
           /\ ret.tag = TagOf(lots)

\* C26: the broker-flow parser returns at most 6 rows, and the ranking parser
\* at most 50 buy rows and at most 50 sell rows.
C26_RowCaps ==
  /\ call.fn = "parseZgb" => Len(ret.rows) <= 6
  /\ call.fn = "parseZgkD" => Len(ret.buy) <= 50 /\ Len(ret.sell) <= 50

\* A ranking of 51 well-formed entries was parsed: 50 buy rows came back.
C26_Witness ==
  /\ call.fn = "parseZgkD"
  /\ call.raw.lines = HeaderZgk \o Times(RankGroup, 51)
  /\ Len(ret.buy) = 50
  /\ Len(ret.sell) = 50

\* C27: the ranking parser admits the buy side and the sell side of an entry
\* independently: an entry whose buy side is no row and whose sell side is one
\* gives a sell row, and an entry whose sell side is no row and whose buy side
\* is one gives a buy row.
C27_SidesIndependent ==
  call.fn = "parseZgkD" =>
    \A n \in 0..1 :
      /\ call.raw.lines = HeaderZgk \o Times(RankGroup, n) \o RankGroupSellOnly =>
           Len(ret.buy) = n /\ Len(ret.sell) = n + 1
      /\ call.raw.lines = HeaderZgk \o Times(RankGroup, n) \o RankGroupBuyOnly =>
           Len(ret.buy) = n + 1 /\ Len(ret.sell) = n

\* C28: every row the broker-flow parser and the ranking parser return has all
\* of its figures parsed as numbers, none null: parsing stops at the first
\* entry with a figure that does not parse, and no row of that entry or after
\* it is returned.
C28_RowsAreNumeric ==
  /\ call.fn = "parseZgb" =>
       \A i \in DOMAIN ret.rows :
         ~ret.rows[i].buy.null /\ ~ret.rows[i].sell.null /\ ~ret.rows[i].diff.null
  /\ call.fn = "parseZgkD" =>
       \A r \in Range(ret.buy) \cup Range(ret.sell) :
         ~r.rank.null /\ ~r.vol.null /\ ~r.close.null /\ ~r.chg.null

\* A fetch of an extension ticker has been issued and has not resolved.
FetchPending == pc \in {"t86", "day", "price"} \/ runs # <<>>

\* C29: once the feed has loaded the cards of the fixed tickers are in the
\* grid, ahead of every other card, before the first fetch of an extension
\* ticker is issued, and they stay there whether or not a fetch ever resolves:
\* in every state in which a fetch is pending, and in every state after it, the
\* grid begins with one card for each fixed ticker of the feed, and holds no
\* other fixed card.
C29_FixedCardsFirst ==
  (Loaded \/ FetchPending) =>
    LET n == Cardinality(Range(data.keys)) IN
      /\ Len(grid) >= n
      /\ \A i \in 1..n : ~grid[i].extra
      /\ {grid[i].ticker : i \in 1..n} = Range(data.keys)
      /\ Len(FixedCards(grid)) = n

\* The first fetch of an extension ticker is pending and the grid holds the
\* fixed cards, and nothing else yet.
C29_Witness ==
  /\ FetchPending
  /\ ~raised
  /\ Len(grid) >= 3
  /\ ExtraCards(grid) = <<>>

\* C30: when the feed loads and every fetch that was issued resolves or
\* rejects, every page load gets to render the broker-flow table and the
\* ranking table, whichever of the fetches of the extension tickers succeed
\* and whichever fail.
C30_TablesEventually == <>ranked

\* A page load with two extension tickers, a fetch of which failed, has
\* rendered the two tables.
C30_Witness ==
  /\ ranked
  /\ raised
  /\ Len(ext) = 2 \/ Len(latest) = 2
  /\ \E c \in Range(ExtraCards(grid)) : c.quote # "value"
====
